---- MODULE Spec2Model ----
(***************************************************************************)
(* Geometry pipeline of the WebGPU demo: generateIcosahedron (geometry.ts), *)
(* calculateBetterUVs (Icosahedron.ts, two versions) and                   *)
(* fixTextureSeamProperly (fixTextureSeam.ts), one action per loop         *)
(* iteration of the source.                                                *)
(*                                                                         *)
(* Numbers.  Positions are fixed-point integers, PosScale units per 1.0.   *)
(* Texture coordinates are fixed-point integers, UScale units per 1.0.     *)
(* Vertex indices are the 0-based indices of the source; the sequence      *)
(* position of vertex k is k + 1.                                          *)
(*                                                                         *)
(* Vertex arrays of the seam repair.  A stride-8 vertex array is held as   *)
(* a sequence of runs [count, rec]: count consecutive vertex records equal *)
(* to rec, no two neighbouring runs with the same rec.  The array of       *)
(* 65535 records that 16-bit indices can address is one short sequence.    *)
(***************************************************************************)
EXTENDS Integers, Sequences, FiniteSets, TLC

VARIABLES
  pc,               \* position in the running function
  subdivisions,     \* generateIcosahedron: argument
  genI,             \* generateIcosahedron: pass counter i of the outer for
  faceIdx,          \* generateIcosahedron: faces already consumed by the for-of
  vertices,         \* generateIcosahedron: let vertices
  faces,            \* generateIcosahedron: let faces
  newFaces,         \* generateIcosahedron: const newFaces of the running pass
  midpointCache,    \* generateIcosahedron: const midpointCache
  flatVertices,     \* generateIcosahedron: returned vertices (6 per record)
  flatIndices,      \* generateIcosahedron: returned indices (Uint16Array)
  meshVertices,     \* fixTextureSeamProperly: argument vertices (8 per record)
  meshIndices,      \* fixTextureSeamProperly: argument indices
  indexType,        \* fixTextureSeamProperly: "Uint16" or "Uint32", the type of indices
  fixI,             \* fixTextureSeamProperly: loop variable i
  newVertices,      \* fixTextureSeamProperly: const newVertices
  newIndices,       \* fixTextureSeamProperly: const newIndices
  nextVertexIndex,  \* fixTextureSeamProperly: let nextVertexIndex
  log,              \* fixTextureSeamProperly: the lines written by console.log
  finalVertices,    \* fixTextureSeamProperly: returned vertices
  finalIndices,     \* fixTextureSeamProperly: returned indices
  run,              \* number of the repair call in progress (1 = first call)
  firstWellFormed,  \* history: the first call's arguments were a well-formed mesh
  uvVersion,        \* calculateBetterUVs: 1 = Icosahedron.ts, 2 = the later version
  uvVertices,       \* calculateBetterUVs: argument vertices (6 per record)
  uvI,              \* calculateBetterUVs: loop variable i
  uvResult,         \* calculateBetterUVs: const result, the records set so far
  calls,            \* the locals of each of two generateIcosahedron calls in progress
  geometry,         \* one IcosahedronGeometry instance: its fields and construction
  sceneObject,      \* one SceneObject instance: its fields and the pass it drew into
  engine,           \* one Engine after init(): its fields and the GPU objects it made
  loadTexture       \* the locals of one loadTexture call

genVars == <<subdivisions, genI, faceIdx, vertices, faces, newFaces,
             midpointCache, flatVertices, flatIndices>>

fixVars == <<meshVertices, meshIndices, indexType, fixI, newVertices, newIndices,
             nextVertexIndex, log, finalVertices, finalIndices, run,
             firstWellFormed>>

uvVars == <<uvVersion, uvVertices, uvI, uvResult>>

appVars == <<geometry, sceneObject, engine, loadTexture>>

vars == <<pc, genVars, fixVars, uvVars, calls, appVars>>

-----------------------------------------------------------------------------
(* Bounds of the model *)

MaxSubdivisions == 2

\* triangles in an input mesh of the seam repair
MaxTriangles == 2

\* calls of the seam repair in a row, each on the previous call's result
MaxRuns == 2

\* records in an input array of calculateBetterUVs
MaxUVRecords == 2

\* highest level of two generateIcosahedron calls whose steps interleave
MaxCallLevel == 1

\* u values of the input vertices, in UScale units
UValues == {0, 5, 25, 30, 50, 70, 75, 95}

-----------------------------------------------------------------------------
(* Number formats *)

PosScale == 10000

\* new Uint16Array(...): an element is stored modulo 2^16
Uint16Modulus == 65536

ToUint16(n) == n % Uint16Modulus

\* division of doubles, rounded toward zero on the fixed-point grid
FDiv(a, b) == IF a >= 0 THEN a \div b ELSE -((-a) \div b)

RECURSIVE SqrtIter(_, _)
SqrtIter(n, x) ==
  LET y == (x + n \div x) \div 2
  IN IF y >= x THEN x ELSE SqrtIter(n, y)

\* floor of the square root
ISqrt(n) == IF n <= 0 THEN 0 ELSE SqrtIter(n, n)

\* Math.hypot(x, y, z)
Hypot(v) == ISqrt(v[1] * v[1] + v[2] * v[2] + v[3] * v[3])

\* v.map(x => x / len), the result back on the PosScale grid
Normalize(v) ==
  LET len == Hypot(v)
  IN [k \in 1..3 |-> FDiv(v[k] * PosScale, len)]

-----------------------------------------------------------------------------
(* generateIcosahedron *)

\* const t = (1 + Math.sqrt(5)) / 2
GoldenT == (PosScale + ISqrt(5 * PosScale * PosScale)) \div 2

baseVertices ==
  LET t == GoldenT
      o == PosScale
      raw == << <<-o, t, 0>>, <<o, t, 0>>, <<-o, -t, 0>>, <<o, -t, 0>>,
                <<0, -o, t>>, <<0, o, t>>, <<0, -o, -t>>, <<0, o, -t>>,
                <<t, 0, -o>>, <<t, 0, o>>, <<-t, 0, -o>>, <<-t, 0, o>> >>
  IN [k \in 1..12 |-> Normalize(raw[k])]

baseFaces ==
  << <<0, 11, 5>>, <<0, 5, 1>>, <<0, 1, 7>>, <<0, 7, 10>>, <<0, 10, 11>>,
     <<1, 5, 9>>, <<5, 11, 4>>, <<11, 10, 2>>, <<10, 7, 6>>, <<7, 1, 8>>,
     <<3, 9, 4>>, <<3, 4, 2>>, <<3, 2, 6>>, <<3, 6, 8>>, <<3, 8, 9>>,
     <<4, 9, 5>>, <<2, 4, 11>>, <<6, 2, 10>>, <<8, 6, 7>>, <<9, 8, 1>> >>

\* a bug the edge-sharing claims must detect: the key keeps the call's order
KeyAsGiven(a, b) == <<a, b>>

\* const key = a < b ? `${a}-${b}` : `${b}-${a}`
Key(a, b) == IF a < b THEN <<a, b>> ELSE <<b, a>>

\* a bug the edge-sharing claims must detect: midpointCache.set is forgotten
getMidpointUncached(vs, cache, a, b) ==
  LET index == Len(vs)
      m == [k \in 1..3 |-> FDiv(vs[a + 1][k] + vs[b + 1][k], 2)]
  IN [index |-> index, vertices |-> Append(vs, Normalize(m)), cache |-> cache]

\* a bug the unit-norm claim must detect: the midpoint is pushed as averaged
getMidpointUnnormalized(vs, cache, a, b) ==
  LET key == Key(a, b)
      m == [k \in 1..3 |-> FDiv(vs[a + 1][k] + vs[b + 1][k], 2)]
  IN IF key \in DOMAIN cache
       THEN [index |-> cache[key], vertices |-> vs, cache |-> cache]
       ELSE [index |-> Len(vs), vertices |-> Append(vs, m), cache |-> (key :> Len(vs)) @@ cache]

\* getMidpoint(a, b) on the closure's vertices and midpointCache: the index it
\* returns and the two collections as it leaves them
getMidpoint(vs, cache, a, b) ==
  LET key == Key(a, b)
  IN IF key \in DOMAIN cache
       THEN [index |-> cache[key], vertices |-> vs, cache |-> cache]
       ELSE LET va == vs[a + 1]
                vb == vs[b + 1]
                m == [k \in 1..3 |-> FDiv(va[k] + vb[k], 2)]
                newVertex == Normalize(m)
                index == Len(vs)
            IN [index |-> index,
                vertices |-> Append(vs, newVertex),
                cache |-> (key :> index) @@ cache]

\* a bug the child-order claim must detect: the centre face is pushed first
ChildFacesCentreFirst(a, b, c, ab, bc, ca) ==
  << <<ab, bc, ca>>, <<a, ab, ca>>, <<b, bc, ab>>, <<c, ca, bc>> >>

\* a bug the orientation claim must detect: the first child is wound backwards
ChildFacesFlipped(a, b, c, ab, bc, ca) ==
  << <<a, ca, ab>>, <<b, bc, ab>>, <<c, ca, bc>>, <<ab, bc, ca>> >>

\* a bug the stale-key claim must detect: the first child keeps the edge a-b
ChildFacesKeepingEdge(a, b, c, ab, bc, ca) ==
  << <<a, b, ca>>, <<b, bc, ab>>, <<c, ca, bc>>, <<ab, bc, ca>> >>

\* the four faces pushed for the face (a, b, c) with midpoints ab, bc, ca
ChildFaces(a, b, c, ab, bc, ca) ==
  << <<a, ab, ca>>, <<b, bc, ab>>, <<c, ca, bc>>, <<ab, bc, ca>> >>

\* flatIndices.set(faces[i], i * 3) for every face, into a Uint16Array
FlattenIndices(fs) ==
  [k \in 1..(3 * Len(fs)) |-> ToUint16(fs[((k - 1) \div 3) + 1][((k - 1) % 3) + 1])]

\* a bug the record claim must detect: the normal is left at the array's zeros
FlattenVerticesNoNormal(vs) ==
  [k \in 1..Len(vs) |-> <<vs[k][1], vs[k][2], vs[k][3], 0, 0, 0>>]

\* flatVertices.set([x, y, z, x, y, z], i * 6) for every vertex
FlattenVertices(vs) ==
  [k \in 1..Len(vs) |-> <<vs[k][1], vs[k][2], vs[k][3], vs[k][1], vs[k][2], vs[k][3]>>]

\* the seam repair is not running
FixIdle ==
  /\ meshVertices = <<>>
  /\ meshIndices = <<>>
  /\ indexType = "Uint16"
  /\ fixI = 0
  /\ newVertices = <<>>
  /\ newIndices = <<>>
  /\ nextVertexIndex = 0
  /\ log = <<>>
  /\ finalVertices = <<>>
  /\ finalIndices = <<>>
  /\ run = 0
  /\ firstWellFormed = FALSE

\* calculateBetterUVs is not running
UVIdle ==
  /\ uvVersion = 1
  /\ uvVertices = <<>>
  /\ uvI = 0
  /\ uvResult = <<>>

\* no pair of interleaved calls is running
CallsIdle == calls = <<>>

\* no object of the rendering layer exists
AppIdle ==
  /\ geometry = <<>>
  /\ sceneObject = <<>>
  /\ engine = <<>>
  /\ loadTexture = <<>>

\* entry of generateIcosahedron(subdivisions).  The parameter is a number: the
\* levels of the model are the integers from -1 on, the code has no check of it.
GenInit ==
  /\ FixIdle
  /\ UVIdle
  /\ CallsIdle
  /\ AppIdle
  /\ pc = "gen_pass"
  /\ subdivisions \in (-1)..MaxSubdivisions
  /\ genI = 0
  /\ faceIdx = 0
  /\ vertices = baseVertices
  /\ faces = baseFaces
  /\ newFaces = <<>>
  /\ midpointCache = <<>>
  /\ flatVertices = <<>>
  /\ flatIndices = <<>>

\* for (let i = 0; i < subdivisions; i++) { const newFaces = []; ...
BeginPass ==
  /\ pc = "gen_pass"
  /\ genI < subdivisions
  /\ newFaces' = <<>>
  /\ faceIdx' = 0
  /\ pc' = "gen_face"
  /\ UNCHANGED <<subdivisions, genI, vertices, faces, midpointCache,
                 flatVertices, flatIndices>>
  /\ UNCHANGED <<fixVars, uvVars, calls, appVars>>

\* one iteration of for (const [a, b, c] of faces)
SubdivideFace ==
  /\ pc = "gen_face"
  /\ faceIdx < Len(faces)
  /\ LET f == faces[faceIdx + 1]
         a == f[1]
         b == f[2]
         c == f[3]
         r1 == getMidpoint(vertices, midpointCache, a, b)
         r2 == getMidpoint(r1.vertices, r1.cache, b, c)
         r3 == getMidpoint(r2.vertices, r2.cache, c, a)
     IN /\ vertices' = r3.vertices
        /\ midpointCache' = r3.cache
        /\ newFaces' = newFaces \o ChildFaces(a, b, c, r1.index, r2.index, r3.index)
  /\ faceIdx' = faceIdx + 1
  /\ UNCHANGED <<pc, subdivisions, genI, faces, flatVertices, flatIndices>>
  /\ UNCHANGED <<fixVars, uvVars, calls, appVars>>

\* a bug the cache-lifetime claim must detect: the pass ends with
\* midpointCache.clear()
EndPassClearingCache ==
  /\ pc = "gen_face"
  /\ faceIdx = Len(faces)
  /\ faces' = newFaces
  /\ genI' = genI + 1
  /\ midpointCache' = <<>>
  /\ pc' = "gen_pass"
  /\ UNCHANGED <<subdivisions, faceIdx, vertices, newFaces, flatVertices, flatIndices>>
  /\ UNCHANGED <<fixVars, uvVars, calls, appVars>>

\* faces = newFaces; i++
EndPass ==
  /\ pc = "gen_face"
  /\ faceIdx = Len(faces)
  /\ faces' = newFaces
  /\ genI' = genI + 1
  /\ pc' = "gen_pass"
  /\ UNCHANGED <<subdivisions, faceIdx, vertices, newFaces, midpointCache,
                 flatVertices, flatIndices>>
  /\ UNCHANGED <<fixVars, uvVars, calls, appVars>>

\* the loop is over: flatten both collections and return them
Flatten ==
  /\ pc = "gen_pass"
  /\ ~(genI < subdivisions)
  /\ flatVertices' = FlattenVertices(vertices)
  /\ flatIndices' = FlattenIndices(faces)
  /\ pc' = "gen_done"
  /\ UNCHANGED <<subdivisions, genI, faceIdx, vertices, faces, newFaces,
                 midpointCache>>
  /\ UNCHANGED <<fixVars, uvVars, calls, appVars>>

GenNext == BeginPass \/ SubdivideFace \/ EndPass \/ Flatten

\* the generator on its own
SpecGen == GenInit /\ [][GenNext]_vars

-----------------------------------------------------------------------------
(* fixTextureSeamProperly *)

UScale == 100

\* 0.5 in Math.abs(u0 - u1) > 0.5
SeamThreshold == 50

\* 0.3 in u < 0.3
LowU == 30

\* 0.7 in u0 > 0.7
HighU == 70

\* 1.0 in newVertex[6] = u + 1.0
UShift == 100

\* vertices.length / stride
RECURSIVE VertexCount(_)
VertexCount(vs) ==
  IF vs = <<>> THEN 0 ELSE vs[1].count + VertexCount(Tail(vs))

\* the stride floats vertices[index * stride + k], k = 0..7, of a record in range
RECURSIVE VertexAt(_, _)
VertexAt(vs, index) ==
  IF index < vs[1].count THEN vs[1].rec ELSE VertexAt(Tail(vs), index - vs[1].count)

\* a bug the clone count must detect: a clone equal to the last one is shared
PushVertexShared(vs, rec) ==
  IF vs # <<>> /\ vs[Len(vs)].rec = rec THEN vs ELSE Append(vs, [count |-> 1, rec |-> rec])

\* a bug the purity claim must detect: the clone is put in front of the records
PushVertexFront(vs, rec) == << [count |-> 1, rec |-> rec] >> \o vs

\* newVertices.push(...newVertex)
PushVertex(vs, rec) ==
  IF vs # <<>> /\ vs[Len(vs)].rec = rec
    THEN [vs EXCEPT ![Len(vs)].count = @ + 1]
    ELSE Append(vs, [count |-> 1, rec |-> rec])

\* vertices[index * stride + 6]: <<u>>, or <<>> when the read is past the end of
\* the typed array and yields undefined
ReadU(vs, index) ==
  IF index >= 0 /\ index < VertexCount(vs) THEN <<VertexAt(vs, index)[7]>> ELSE <<>>

\* a bug the untouched-triangle claim must detect: >= in place of >
AbsDiffAtLeast(x, y) ==
  /\ x # <<>>
  /\ y # <<>>
  /\ (IF x[1] >= y[1] THEN x[1] - y[1] ELSE y[1] - x[1]) >= SeamThreshold

\* Math.abs(x - y) > 0.5; with an undefined operand the difference is NaN and
\* the comparison is false
AbsDiffExceeds(x, y) ==
  /\ x # <<>>
  /\ y # <<>>
  /\ (IF x[1] >= y[1] THEN x[1] - y[1] ELSE y[1] - x[1]) > SeamThreshold

\* a bug the detection claim must detect: the pair (u0, u2) is not compared
seamCrossingAdjacentOnly(u0, u1, u2) ==
  AbsDiffExceeds(u0, u1) \/ AbsDiffExceeds(u1, u2)

seamCrossing(u0, u1, u2) ==
  AbsDiffExceeds(u0, u1) \/ AbsDiffExceeds(u1, u2) \/ AbsDiffExceeds(u0, u2)

\* u0.toFixed(3) inside the template of the first console.log: a TypeError when
\* the value is undefined
LogThrows(u0, u1, u2) == u0 = <<>> \/ u1 = <<>> \/ u2 = <<>>

\* a bug the clone claim must detect: u <= 0.3 in place of u < 0.3
needsCloneInclusive(u, us) == u <= LowU /\ (us[1] > HighU \/ us[2] > HighU \/ us[3] > HighU)

\* u < 0.3 && (u0 > 0.7 || u1 > 0.7 || u2 > 0.7)
needsClone(u, us) == u < LowU /\ (us[1] > HighU \/ us[2] > HighU \/ us[3] > HighU)

\* a bug the seam-closure claim must detect: newVertex[6] = u + 1.0 is forgotten
CloneVertexUnshifted(vs, originalIndex, u) == VertexAt(vs, originalIndex)

\* newVertex: the stride floats of the original, then newVertex[6] = u + 1.0
CloneVertex(vs, originalIndex, u) == [VertexAt(vs, originalIndex) EXCEPT ![7] = u + UShift]

\* a bug index validity must detect: the corner is rewritten after the increment
CornerStepIncrementFirst(st, j, tri, us, vs) ==
  IF needsClone(us[j], us)
    THEN [newVertices |-> PushVertex(st.newVertices, CloneVertex(vs, tri[j], us[j])),
          newTriangleIndices |-> [st.newTriangleIndices EXCEPT ![j] = st.nextVertexIndex + 1],
          nextVertexIndex |-> st.nextVertexIndex + 1,
          log |-> Append(st.log, <<"dup", tri[j], st.nextVertexIndex, us[j], us[j] + UShift>>)]
    ELSE st

\* one iteration of for (let j = 0; j < 3; j++), corner j + 1 of the triangle tri
CornerStep(st, j, tri, us, vs) ==
  IF needsClone(us[j], us)
    THEN [newVertices |-> PushVertex(st.newVertices, CloneVertex(vs, tri[j], us[j])),
          newTriangleIndices |-> [st.newTriangleIndices EXCEPT ![j] = st.nextVertexIndex],
          nextVertexIndex |-> st.nextVertexIndex + 1,
          log |-> Append(st.log, <<"dup", tri[j], st.nextVertexIndex, us[j], us[j] + UShift>>)]
    ELSE st

\* new Uint32Array(newIndices) or new Uint16Array(newIndices).  Every index of
\* the model is below 2^31, so the 32-bit store keeps it.
ConvertIndices(type, ixs) ==
  IF type = "Uint32" THEN ixs ELSE [k \in 1..Len(ixs) |-> ToUint16(ixs[k])]

\* the generator is not running
GenIdle ==
  /\ subdivisions = 0
  /\ genI = 0
  /\ faceIdx = 0
  /\ vertices = <<>>
  /\ faces = <<>>
  /\ newFaces = <<>>
  /\ midpointCache = <<>>
  /\ flatVertices = <<>>
  /\ flatIndices = <<>>

\* vertex record k of an input mesh: eight distinct floats, u at offset 6
MeshVertex(k, u) == <<10 + k, 20 + k, 30 + k, 40 + k, 50 + k, 60 + k, u, 70 + k>>

\* triangles that may follow the first triangle (0, 1, 2) of a small input mesh;
\* index 3 is past the end of the three input vertices
ExtraTriangles ==
  { <<0, 1, 2>>, <<2, 1, 0>>, <<1, 2, 0>>, <<0, 0, 1>>, <<1, 2, 2>>, <<0, 1, 3>>, <<3, 3, 2>> }

RECURSIVE TriangleLists(_)
TriangleLists(n) ==
  IF n = 0 THEN {<<>>}
  ELSE LET shorter == TriangleLists(n - 1)
       IN shorter \cup {l \o t : l \in {s \in shorter : Len(s) = 3 * (n - 1)}, t \in ExtraTriangles}

\* small input meshes: three vertices with any u values, the triangle (0, 1, 2)
\* and up to MaxTriangles - 1 further triangles
SmallMeshes ==
  { [vertices |-> [k \in 1..3 |-> [count |-> 1, rec |-> MeshVertex(k - 1, us[k])]],
     indices |-> <<0, 1, 2>> \o extra] :
      us \in [1..3 -> UValues], extra \in TriangleLists(MaxTriangles - 1) }

\* u values of the corners of the one triangle of a large input mesh
LargeCorners == { <<5, 5, 95>>, <<5, 95, 50>>, <<50, 50, 50>> }

\* large input meshes: as many vertices as 16-bit indices can address but one,
\* and the triangle (0, 1, 2)
LargeMeshes ==
  { [vertices |-> [k \in 1..3 |-> [count |-> 1, rec |-> MeshVertex(k - 1, us[k])]]
                    \o << [count |-> Uint16Modulus - 4, rec |-> MeshVertex(3, 50)] >>,
     indices |-> <<0, 1, 2>>] : us \in LargeCorners }

\* the Mesh invariants of an argument pair: every index addresses a vertex and
\* every u lies in [0, 1]
WellFormed(vs, ixs) ==
  /\ \A k \in 1..Len(ixs) : ixs[k] >= 0 /\ ixs[k] < VertexCount(vs)
  /\ \A r \in 1..Len(vs) : vs[r].rec[7] >= 0 /\ vs[r].rec[7] <= UScale

\* entry of fixTextureSeamProperly(vertices, indices), up to the loop
EnterRepair(vs, ixs, type) ==
  /\ meshVertices' = vs
  /\ meshIndices' = ixs
  /\ indexType' = type
  /\ newVertices' = vs
  /\ newIndices' = ixs
  /\ nextVertexIndex' = VertexCount(vs)
  /\ fixI' = 0
  /\ log' = <<>>
  /\ finalVertices' = <<>>
  /\ finalIndices' = <<>>
  /\ pc' = "fix_loop"

FixInit ==
  /\ GenIdle
  /\ UVIdle
  /\ CallsIdle
  /\ AppIdle
  /\ pc = "fix_loop"
  /\ \E m \in SmallMeshes \cup LargeMeshes :
       /\ meshVertices = m.vertices
       /\ meshIndices = m.indices
       /\ newVertices = m.vertices
       /\ newIndices = m.indices
       /\ nextVertexIndex = VertexCount(m.vertices)
       /\ firstWellFormed = WellFormed(m.vertices, m.indices)
  /\ indexType \in {"Uint16", "Uint32"}
  /\ fixI = 0
  /\ log = <<>>
  /\ finalVertices = <<>>
  /\ finalIndices = <<>>
  /\ run = 1

\* one iteration of for (let i = 0; i < indices.length; i += 3)
ProcessTriangle ==
  /\ pc = "fix_loop"
  /\ fixI < Len(meshIndices)
  /\ LET tri == <<meshIndices[fixI + 1], meshIndices[fixI + 2], meshIndices[fixI + 3]>>
         u0 == ReadU(meshVertices, tri[1])
         u1 == ReadU(meshVertices, tri[2])
         u2 == ReadU(meshVertices, tri[3])
     IN IF seamCrossing(u0, u1, u2)
          THEN IF LogThrows(u0, u1, u2)
                 THEN /\ pc' = "fix_threw"
                      /\ UNCHANGED <<fixI, newVertices, newIndices, nextVertexIndex, log>>
                 ELSE LET us == <<u0[1], u1[1], u2[1]>>
                          st0 == [newVertices |-> newVertices,
                                  newTriangleIndices |-> tri,
                                  nextVertexIndex |-> nextVertexIndex,
                                  log |-> Append(log, <<"seam", fixI \div 3, us>>)]
                          st1 == CornerStep(st0, 1, tri, us, meshVertices)
                          st2 == CornerStep(st1, 2, tri, us, meshVertices)
                          st3 == CornerStep(st2, 3, tri, us, meshVertices)
                      IN /\ newVertices' = st3.newVertices
                         /\ newIndices' = [newIndices EXCEPT
                                             ![fixI + 1] = st3.newTriangleIndices[1],
                                             ![fixI + 2] = st3.newTriangleIndices[2],
                                             ![fixI + 3] = st3.newTriangleIndices[3]]
                         /\ nextVertexIndex' = st3.nextVertexIndex
                         /\ log' = st3.log
                         /\ fixI' = fixI + 3
                         /\ pc' = pc
          ELSE /\ fixI' = fixI + 3
               /\ UNCHANGED <<pc, newVertices, newIndices, nextVertexIndex, log>>
  /\ UNCHANGED <<meshVertices, meshIndices, indexType, finalVertices, finalIndices, run,
                 firstWellFormed>>
  /\ UNCHANGED <<genVars, uvVars, calls, appVars>>

\* after the loop: the last console.log, the typed arrays and the return.  A
\* value of the UScale grid is a Float32 value: the Float32Array keeps it.
FinishRepair ==
  /\ pc = "fix_loop"
  /\ ~(fixI < Len(meshIndices))
  /\ log' = Append(log, <<"count", VertexCount(meshVertices), VertexCount(newVertices)>>)
  /\ finalVertices' = newVertices
  /\ finalIndices' = ConvertIndices(indexType, newIndices)
  /\ pc' = "fix_done"
  /\ UNCHANGED <<meshVertices, meshIndices, indexType, fixI, newVertices, newIndices,
                 nextVertexIndex, run, firstWellFormed>>
  /\ UNCHANGED <<genVars, uvVars, calls, appVars>>

\* the caller repairs the returned mesh again
RepairAgain ==
  /\ pc = "fix_done"
  /\ run < MaxRuns
  /\ EnterRepair(finalVertices, finalIndices, indexType)
  /\ run' = run + 1
  /\ UNCHANGED firstWellFormed
  /\ UNCHANGED <<genVars, uvVars, calls, appVars>>

FixNext == ProcessTriangle \/ FinishRepair \/ RepairAgain

-----------------------------------------------------------------------------
(* calculateBetterUVs, the version of Icosahedron.ts (1) and the later version *)
(* with the margin (2).  A float of the result that may be NaN is held as <<n>> *)
(* or, for NaN, as <<>>; u and v are fixed point, UVScale units per 1.0.        *)

UVScale == 1000

\* 0.001 in if (u < 0.001) u = 0.001
UVMarginLow == 1

\* 0.999 in if (u > 0.999) u = 0.999
UVMarginHigh == 999

\* atan(p / q) / (2 * PI) for 0 <= p <= q, q > 0, in UVScale units: between 0 and
\* an eighth of a turn, exact at both ends
AtanTurns(p, q) ==
  (p * (UVScale \div 8)) \div q + (((43 * UVScale) \div 1000) * p * (q - p)) \div (q * q)

\* the angle of the point (x, y) as a fraction of a turn, from minus half a turn
\* to half a turn.  yNegZero: y is the float -0 (a zero x is +0 here).
AngleTurns(y, x, yNegZero) ==
  LET ay == IF y < 0 THEN -y ELSE y
      ax == IF x < 0 THEN -x ELSE x
      first == IF ay = 0 /\ ax = 0 THEN 0
               ELSE IF ay <= ax THEN AtanTurns(ay, ax)
               ELSE (UVScale \div 4) - AtanTurns(ax, ay)
      upper == IF x < 0 THEN (UVScale \div 2) - first ELSE first
  IN IF y < 0 \/ (y = 0 /\ yNegZero) THEN -upper ELSE upper

\* a bug the range claim must detect: the angle is divided by PI / 2
Atan2OverHalfPi(y, x, yNegZero) == 4 * AngleTurns(y, x, yNegZero)

\* Math.atan2(y, x) / (2 * Math.PI)
Atan2Turns(y, x, yNegZero) == AngleTurns(y, x, yNegZero)

\* Math.asin(y) / Math.PI for y in [-1, 1], as the angle of (sqrt(1 - y * y), y)
AsinHalfTurns(y) == 2 * AngleTurns(y, ISqrt(PosScale * PosScale - y * y), FALSE)

Min(a, b) == IF a <= b THEN a ELSE b

Max(a, b) == IF a >= b THEN a ELSE b

\* normX, normY, normZ = px / length, ...: <<>> when length is 0 and the three
\* quotients are 0 / 0 = NaN
NormOf(rec) ==
  LET length == Hypot(rec)
  IN IF length = 0 THEN <<>>
     ELSE <<[k \in 1..3 |-> FDiv(rec[k] * PosScale, length)]>>

\* u and v of version 1 for one record.  Every comparison with NaN is false and
\* Math.min, Math.max and the arithmetic pass NaN on.
UVOf1(rec) ==
  LET n == NormOf(rec)
  IN IF n = <<>> THEN << <<>>, <<>> >>
     ELSE LET u0 == Atan2Turns(n[1][3], n[1][1], FALSE) + (UVScale \div 2)
              u1 == IF u0 < 0 THEN u0 + UVScale ELSE u0
              u2 == IF u1 > UVScale THEN u1 - UVScale ELSE u1
              v0 == AsinHalfTurns(Max(-PosScale, Min(PosScale, n[1][2]))) + (UVScale \div 2)
              v1 == Max(0, Min(UVScale, v0))
          IN << <<u2>>, <<UVScale - v1>> >>

\* u and v of version 2 for one record.  -normX is the float -0 when normX is 0.
UVOf2(rec) ==
  LET n == NormOf(rec)
  IN IF n = <<>> THEN << <<>>, <<>> >>
     ELSE LET u0 == UVScale - (Atan2Turns(-n[1][1], n[1][3], n[1][1] = 0) + (UVScale \div 2))
              u1 == IF u0 < UVMarginLow THEN UVMarginLow ELSE u0
              u2 == IF u1 > UVMarginHigh THEN UVMarginHigh ELSE u1
              v0 == AsinHalfTurns(Max(-PosScale, Min(PosScale, n[1][2]))) + (UVScale \div 2)
              v1 == Max(UVMarginLow, Min(UVMarginHigh, v0))
          IN << <<u2>>, <<UVScale - v1>> >>

\* a bug the frame claim must detect: the normal is written from the position
UVRecordNormalFromPosition(rec, uv) ==
  <<rec[1], rec[2], rec[3], rec[1], rec[2], rec[3], uv[1], uv[2]>>

\* [px, py, pz, nx, ny, nz, u, v]
UVRecord(rec, uv) == <<rec[1], rec[2], rec[3], rec[4], rec[5], rec[6], uv[1], uv[2]>>

\* a record of new Float32Array(count * 8) before it is set
ZeroRecord == <<0, 0, 0, 0, 0, 0, <<0>>, <<0>> >>

\* input records on the PosScale grid: the poles, points on and beside both
\* versions' seams, the axes, a point off the sphere, the origin, with the normal
\* equal to the position; and the twelve base vertices of the icosahedron with
\* a normal of their own
UVInputRecords ==
  LET o == PosScale
      special == { <<0, o, 0>>, <<0, -o, 0>>, <<-o, 0, 0>>, <<o, 0, 0>>, <<0, 0, o>>,
                   <<0, 0, -o>>, <<-o, 0, -1>>, <<1, 0, -o>>, <<3, 4, 0>>, <<0, 0, 0>> }
  IN { <<p[1], p[2], p[3], p[1], p[2], p[3]>> : p \in special }
       \cup { <<baseVertices[k][1], baseVertices[k][2], baseVertices[k][3], 0, 0, o>> :
                k \in 1..12 }

RECURSIVE UVInputs(_)
UVInputs(n) ==
  IF n = 0 THEN {<<>>}
  ELSE LET shorter == UVInputs(n - 1)
       IN shorter \cup {Append(l, r) : l \in {q \in shorter : Len(q) = n - 1},
                                       r \in UVInputRecords}

\* entry of calculateBetterUVs(vertices), up to the loop
UVInit ==
  /\ GenIdle
  /\ FixIdle
  /\ CallsIdle
  /\ AppIdle
  /\ pc = "uv_loop"
  /\ uvVersion \in {1, 2}
  /\ uvVertices \in UVInputs(MaxUVRecords)
  /\ uvI = 0
  /\ uvResult = [k \in 1..Len(uvVertices) |-> ZeroRecord]

\* one iteration of for (let i = 0; i < count; i++)
ProjectVertex ==
  /\ pc = "uv_loop"
  /\ uvI < Len(uvVertices)
  /\ LET rec == uvVertices[uvI + 1]
         uv == IF uvVersion = 1 THEN UVOf1(rec) ELSE UVOf2(rec)
     IN uvResult' = [uvResult EXCEPT ![uvI + 1] = UVRecord(rec, uv)]
  /\ uvI' = uvI + 1
  /\ UNCHANGED <<pc, uvVersion, uvVertices, genVars, fixVars, calls, appVars>>

\* return result
ReturnUVs ==
  /\ pc = "uv_loop"
  /\ ~(uvI < Len(uvVertices))
  /\ pc' = "uv_done"
  /\ UNCHANGED <<uvVars, genVars, fixVars, calls, appVars>>

UVNext == ProjectVertex \/ ReturnUVs

SpecUV == UVInit /\ [][UVNext]_vars

-----------------------------------------------------------------------------
(* Two calls of generateIcosahedron whose steps interleave.  calls[id] holds  *)
(* the locals of call id, the fields named as the variables of the one call. *)

\* the locals of a call on entry, up to the outer loop
CallBegin(level) ==
  [pc |-> "gen_pass", subdivisions |-> level, genI |-> 0, faceIdx |-> 0,
   vertices |-> baseVertices, faces |-> baseFaces, newFaces |-> <<>>,
   midpointCache |-> <<>>, flatVertices |-> <<>>, flatIndices |-> <<>>]

\* a bug the independence claim must detect: one midpointCache at module level,
\* the first call's, read by every call
CacheOfFirstCall(cs, id) == cs[1].midpointCache

\* const midpointCache = new Map() in the function body: each call reads its own
CacheOfCall(cs, id) == cs[id].midpointCache

\* for (let i = 0; i < subdivisions; i++) { const newFaces = []; ...
BeginPassOf(c) == [c EXCEPT !.newFaces = <<>>, !.faceIdx = 0, !.pc = "gen_face"]

\* one iteration of for (const [a, b, c] of faces), the cache read being cache
SubdivideFaceOf(c, cache) ==
  LET f == c.faces[c.faceIdx + 1]
      r1 == getMidpoint(c.vertices, cache, f[1], f[2])
      r2 == getMidpoint(r1.vertices, r1.cache, f[2], f[3])
      r3 == getMidpoint(r2.vertices, r2.cache, f[3], f[1])
  IN [c EXCEPT !.vertices = r3.vertices,
               !.midpointCache = r3.cache,
               !.newFaces = c.newFaces
                              \o ChildFaces(f[1], f[2], f[3], r1.index, r2.index, r3.index),
               !.faceIdx = c.faceIdx + 1]

\* faces = newFaces; i++
EndPassOf(c) == [c EXCEPT !.faces = c.newFaces, !.genI = c.genI + 1, !.pc = "gen_pass"]

\* flatten both collections and return them
FlattenOf(c) ==
  [c EXCEPT !.flatVertices = FlattenVertices(c.vertices),
            !.flatIndices = FlattenIndices(c.faces),
            !.pc = "gen_done"]

\* the call run to its return with no other call in between
RECURSIVE RunAlone(_)
RunAlone(c) ==
  IF c.pc = "gen_done" THEN c
  ELSE IF c.pc = "gen_pass"
         THEN IF c.genI < c.subdivisions THEN RunAlone(BeginPassOf(c))
              ELSE RunAlone(FlattenOf(c))
  ELSE IF c.faceIdx < Len(c.faces) THEN RunAlone(SubdivideFaceOf(c, c.midpointCache))
  ELSE RunAlone(EndPassOf(c))

CallsInit ==
  /\ GenIdle
  /\ FixIdle
  /\ UVIdle
  /\ AppIdle
  /\ pc = "calls"
  /\ calls \in [1..2 -> {CallBegin(level) : level \in 0..MaxCallLevel}]

CallBeginPass(id) ==
  /\ calls[id].pc = "gen_pass"
  /\ calls[id].genI < calls[id].subdivisions
  /\ calls' = [calls EXCEPT ![id] = BeginPassOf(calls[id])]
  /\ UNCHANGED <<pc, genVars, fixVars, uvVars, appVars>>

CallSubdivideFace(id) ==
  /\ calls[id].pc = "gen_face"
  /\ calls[id].faceIdx < Len(calls[id].faces)
  /\ calls' = [calls EXCEPT ![id] = SubdivideFaceOf(calls[id], CacheOfCall(calls, id))]
  /\ UNCHANGED <<pc, genVars, fixVars, uvVars, appVars>>

CallEndPass(id) ==
  /\ calls[id].pc = "gen_face"
  /\ calls[id].faceIdx = Len(calls[id].faces)
  /\ calls' = [calls EXCEPT ![id] = EndPassOf(calls[id])]
  /\ UNCHANGED <<pc, genVars, fixVars, uvVars, appVars>>

CallFlatten(id) ==
  /\ calls[id].pc = "gen_pass"
  /\ ~(calls[id].genI < calls[id].subdivisions)
  /\ calls' = [calls EXCEPT ![id] = FlattenOf(calls[id])]
  /\ UNCHANGED <<pc, genVars, fixVars, uvVars, appVars>>

CallsNext ==
  \E id \in 1..2 :
    CallBeginPass(id) \/ CallSubdivideFace(id) \/ CallEndPass(id) \/ CallFlatten(id)

SpecCalls == CallsInit /\ [][CallsNext]_vars

-----------------------------------------------------------------------------

Init == GenInit \/ FixInit

Next == GenNext \/ FixNext

Spec == Init /\ [][Next]_vars

-----------------------------------------------------------------------------
(* The geometry system: one IcosahedronGeometry under construction and in    *)
(* use.  Version 1 is the first class of geometry-system.ts, whose base      *)
(* constructor calls generateVertices; version 2 is the later class with the *)
(* deferred initialize().  A field that has not been assigned holds          *)
(* undefined, written <<>>; an assigned value v is <<v>>.                    *)

MaxGeometryLevel == 1

\* calls made on the instance once its constructor has ended
MaxGeometryCalls == 3

Undefined == <<>>

\* stride: 8 * 4
TexturedStride == 32

\* stride: 9 * 4
ColoredStride == 36

\* the next step of a generateIcosahedron call: a pass begins, a face is
\* subdivided, a pass ends, or the arrays are flattened and returned
StepOf(c) ==
  IF c.pc = "gen_done" THEN c
  ELSE IF c.pc = "gen_pass"
         THEN IF c.genI < c.subdivisions THEN BeginPassOf(c) ELSE FlattenOf(c)
  ELSE IF c.faceIdx < Len(c.faces) THEN SubdivideFaceOf(c, c.midpointCache)
  ELSE EndPassOf(c)

\* n steps of the call, halved so that the evaluation stays shallow
RECURSIVE RunSteps(_, _)
RunSteps(c, n) ==
  IF n = 0 THEN c
  ELSE IF n = 1 THEN StepOf(c)
  ELSE LET half == RunSteps(c, n \div 2)
       IN IF half.pc = "gen_done" THEN half ELSE RunSteps(half, n - (n \div 2))

\* the call run to its return
RECURSIVE RunToReturn(_, _)
RunToReturn(c, n) ==
  LET d == RunSteps(c, n)
  IN IF d.pc = "gen_done" THEN d ELSE RunToReturn(d, 2 * n)

\* generateIcosahedron(this.subdivisions): with the field undefined the loop
\* test i < undefined is false, as i < 0 is, and no pass runs
RawGeometry(level) ==
  RunToReturn(CallBegin(IF level = Undefined THEN 0 ELSE level[1]), 1)

\* if (this.useTextureCoords): undefined is falsy
Truthy(field) == field = <<TRUE>>

\* generateVertices of IcosahedronGeometry run to its end: the layout chosen by
\* the field as it is now and the index count of the mesh of the field as it
\* is now (the seam repair returns as many indices as it was given)
generateVertices(g) ==
  LET rawGeometry == RawGeometry(g.subdivisions)
  IN [g EXCEPT !.stride = IF Truthy(g.useTextureCoords) THEN TexturedStride
                           ELSE ColoredStride,
               !.indexCount = Len(rawGeometry.flatIndices),
               !.generated = g.generated + 1,
               !.storedAtGenerate = (g.subdivisions # Undefined
                                      /\ g.useTextureCoords # Undefined)]

\* generateVertices left by an exception: at "generate" generateIcosahedron
\* threw and no field was written, at "layout" the layout was assigned and an
\* allocation after it threw
generateVerticesThrowing(g, at) ==
  IF at = "generate" THEN g
  ELSE [g EXCEPT !.stride = IF Truthy(g.useTextureCoords) THEN TexturedStride
                             ELSE ColoredStride]

\* a bug the guard claim must detect: the guard tests the layout, which a
\* failed generateVertices may have left assigned
ensureInitializedByLayout(g) == g.stride = 0

\* ensureInitialized throws
ensureInitialized(g) == ~g._initialized

\* new IcosahedronGeometry(radius, subdivisions, useTextureCoords): the
\* arguments are on the stack, no field is assigned yet
NewGeometry(version, level, textured) ==
  [version |-> version, pc |-> "new",
   args |-> [subdivisions |-> level, useTextureCoords |-> textured],
   subdivisions |-> Undefined, useTextureCoords |-> Undefined,
   _initialized |-> FALSE, stride |-> 0, indexCount |-> 0,
   generated |-> 0, storedAtGenerate |-> FALSE,
   calls |-> 0, last |-> [op |-> "none", result |-> "none"]]

GeometryInit ==
  /\ GenIdle
  /\ FixIdle
  /\ UVIdle
  /\ CallsIdle
  /\ pc = "geometry"
  /\ sceneObject = <<>>
  /\ engine = <<>>
  /\ loadTexture = <<>>
  /\ geometry \in {NewGeometry(version, level, textured) :
                     version \in {1, 2}, level \in 0..MaxGeometryLevel,
                     textured \in BOOLEAN}

\* version 1, super(): constructor() { this.generateVertices(); }
GeometryConstructor1 ==
  /\ geometry.version = 1
  /\ geometry.pc = "new"
  /\ geometry' = [generateVertices(geometry) EXCEPT !.pc = "super"]

\* version 1, after super(): the parameter properties are assigned
ParameterProperties1 ==
  /\ geometry.version = 1
  /\ geometry.pc = "super"
  /\ geometry' = [geometry EXCEPT !.subdivisions = <<geometry.args.subdivisions>>,
                                  !.useTextureCoords = <<geometry.args.useTextureCoords>>,
                                  !.pc = "constructed"]

\* version 2, super(): private _initialized = false; the constructor is empty
GeometryConstructor2 ==
  /\ geometry.version = 2
  /\ geometry.pc = "new"
  /\ geometry' = [geometry EXCEPT !._initialized = FALSE, !.pc = "super"]

\* version 2, after super(): this.subdivisions = subdivisions; ...
StoreArguments2 ==
  /\ geometry.version = 2
  /\ geometry.pc = "super"
  /\ geometry' = [geometry EXCEPT !.subdivisions = <<geometry.args.subdivisions>>,
                                  !.useTextureCoords = <<geometry.args.useTextureCoords>>,
                                  !.pc = "fields"]

\* initialize(): the call that ends the constructor (pc = "fields") and any
\* later call by the subclass.  outcome is what generateVertices does if it is
\* run: "done", or an exception at "generate" or at "layout".
Initialize(outcome) ==
  /\ geometry.version = 2
  /\ geometry.pc \in {"fields", "constructed", "thrown"}
  /\ geometry.pc = "fields" \/ geometry.calls < MaxGeometryCalls
  /\ LET g == [geometry EXCEPT !.calls = IF geometry.pc = "fields" THEN 0
                                          ELSE geometry.calls + 1]
     IN IF g._initialized
          THEN /\ outcome = "done"
               /\ geometry' = [g EXCEPT !.last = [op |-> "initialize",
                                                  result |-> "warned"]]
          ELSE IF outcome = "done"
                 THEN geometry' =
                        [generateVertices(g) EXCEPT
                           !._initialized = TRUE,
                           !.last = [op |-> "initialize", result |-> "returned"],
                           !.pc = IF g.pc = "fields" THEN "constructed" ELSE g.pc]
                 ELSE geometry' =
                        [generateVerticesThrowing(g, outcome) EXCEPT
                           !.last = [op |-> "initialize", result |-> "rethrown"],
                           !.pc = IF g.pc = "fields" THEN "thrown" ELSE g.pc]

\* getVertexBufferDescriptor(), createBuffers(device), getIndexFormat(): each
\* starts with this.ensureInitialized()
Accessor(op) ==
  /\ geometry.version = 2
  /\ geometry.pc \in {"constructed", "thrown"}
  /\ geometry.calls < MaxGeometryCalls
  /\ geometry' = [geometry EXCEPT
                    !.calls = geometry.calls + 1,
                    !.last = [op |-> op,
                              result |-> IF ensureInitialized(geometry)
                                           THEN "Geometry not initialized"
                                           ELSE "value"]]

GeometryNext ==
  /\ \/ GeometryConstructor1
     \/ ParameterProperties1
     \/ GeometryConstructor2
     \/ StoreArguments2
     \/ \E outcome \in {"done", "generate", "layout"} : Initialize(outcome)
     \/ \E op \in {"getVertexBufferDescriptor", "createBuffers", "getIndexFormat"} :
          Accessor(op)
  /\ UNCHANGED <<pc, genVars, fixVars, uvVars, calls, sceneObject, engine, loadTexture>>

SpecGeometry == GeometryInit /\ [][GeometryNext]_vars

-----------------------------------------------------------------------------
(* SceneObject: one instance of a subclass, whose constructor calls          *)
(* initializeBuffers, and the commands its draw() records into a pass.  A    *)
(* JavaScript object is held with the name of its class, which is what       *)
(* instanceof reads.                                                         *)

MaxObjectTriangles == 3

MaxDeltaTime == 4

MaxDraws == 3

\* x instanceof Uint32Array ? 'uint32' : 'uint16'
IndexFormatOf(x) == IF x.class = "Uint32Array" THEN "uint32" ELSE "uint16"

\* a bug-free draw for comparison: the format of the array that was uploaded
IndexFormatOfUpload(x) == IF x.uploaded = "Uint32Array" THEN "uint32" ELSE "uint16"

\* device.createBuffer({ size: indices.byteLength, usage: INDEX, ... }) filled
\* through a view of the class of indices
CreateIndexBuffer(indices) ==
  [class |-> "GPUBuffer", uploaded |-> indices.class,
   size |-> indices.length * (IF indices.class = "Uint32Array" THEN 4 ELSE 2)]

SceneObjectInit ==
  /\ GenIdle
  /\ FixIdle
  /\ UVIdle
  /\ CallsIdle
  /\ pc = "sceneObject"
  /\ geometry = <<>>
  /\ engine = <<>>
  /\ loadTexture = <<>>
  /\ sceneObject = [pc |-> "constructor", indexBuffer |-> Undefined,
                    numIndices |-> Undefined,
                    modelMatrix |-> 0, pass |-> <<>>]

\* initializeBuffers(vertices, indices), called by the subclass constructor.  Its
\* const indexFormat is computed from indices and not kept.
InitializeBuffers(indices) ==
  /\ sceneObject.pc = "constructor"
  /\ sceneObject' = [sceneObject EXCEPT
                       !.numIndices = <<indices.length>>,
                       !.indexBuffer = <<CreateIndexBuffer(indices)>>,
                       !.pc = "constructed"]

\* updateModelTransform(deltaTime): identity rotated about Y by deltaTime
UpdateModelTransform(deltaTime) ==
  /\ sceneObject.pc = "constructed"
  /\ sceneObject' = [sceneObject EXCEPT !.modelMatrix = deltaTime]

\* draw(pass): the setIndexBuffer and drawIndexed commands it records
Draw ==
  /\ sceneObject.pc = "constructed"
  /\ Len(sceneObject.pass) < MaxDraws
  /\ sceneObject' =
       [sceneObject EXCEPT
          !.pass = Append(sceneObject.pass,
                          [setIndexBuffer |-> IndexFormatOf(sceneObject.indexBuffer[1]),
                           drawIndexed |-> sceneObject.numIndices[1]])]

SceneObjectNext ==
  /\ \/ \E class \in {"Uint16Array", "Uint32Array"}, n \in 1..MaxObjectTriangles :
          InitializeBuffers([class |-> class, length |-> 3 * n])
     \/ \E deltaTime \in 0..MaxDeltaTime : UpdateModelTransform(deltaTime)
     \/ Draw
  /\ UNCHANGED <<pc, genVars, fixVars, uvVars, calls, geometry, engine, loadTexture>>

SpecSceneObject == SceneObjectInit /\ [][SceneObjectNext]_vars

-----------------------------------------------------------------------------
(* Engine, from the end of init() on.  version "pipeline" is engine.ts,      *)
(* version "material" the Engine of main.ts; they differ in destroy().       *)
(* meshes[m] is the number of destroy() calls mesh m has had, textures[t]    *)
(* whether depth texture t has been destroyed; sceneSimple, sceneTextured    *)
(* and depthTexture are the fields, holding positions in these sequences.    *)
(* pending is the number of requestAnimationFrame callbacks waiting.         *)

MaxSetSubdivisions == 2

MaxResizes == 2

MaxFrames == 2

MaxLoops == 1

\* mesh.destroy(): the three buffers of mesh m are destroyed once more
DestroyMesh(ms, m) == [ms EXCEPT ![m] = ms[m] + 1]

\* configureDepthTexture(): this.depthTexture = this.device.createTexture(...)
ConfigureDepthTexture(e) ==
  [e EXCEPT !.textures = Append(e.textures, FALSE),
            !.depthTexture = Len(e.textures) + 1]

EngineInit ==
  /\ GenIdle
  /\ FixIdle
  /\ UVIdle
  /\ CallsIdle
  /\ pc = "engine"
  /\ geometry = <<>>
  /\ sceneObject = <<>>
  /\ loadTexture = <<>>
  /\ \E version \in {"pipeline", "material"} :
       engine = [version |-> version,
                 meshes |-> <<0, 0>>, sceneSimple |-> 1, sceneTextured |-> 2,
                 textures |-> <<FALSE>>, depthTexture |-> 1,
                 cameraDestroyed |-> FALSE, lightDestroyed |-> FALSE,
                 useTexture |-> TRUE, pending |-> 0, destroyed |-> FALSE,
                 setSubdivisions |-> <<>>, frames |-> <<>>]

\* start(): requestAnimationFrame((t) => this.frame(t))
Start ==
  /\ engine.pending < MaxLoops
  /\ engine' = [engine EXCEPT !.pending = engine.pending + 1]

\* engine.useTexture = b, the public toggle
SetUseTexture(b) ==
  /\ engine.useTexture # b
  /\ engine' = [engine EXCEPT !.useTexture = b]

\* frame(time): one waiting callback runs, uses the camera, the active mesh,
\* the depth texture and the light, and requests the next callback
Frame ==
  /\ engine.pending > 0
  /\ Len(engine.frames) < MaxFrames
  /\ LET activeScene == IF engine.useTexture THEN engine.sceneTextured
                        ELSE engine.sceneSimple
     IN engine' = [engine EXCEPT
                     !.frames = Append(engine.frames,
                                  [mesh |-> activeScene,
                                   meshDestroyed |-> engine.meshes[activeScene] > 0,
                                   depthDestroyed |-> engine.textures[engine.depthTexture],
                                   cameraDestroyed |-> engine.cameraDestroyed,
                                   lightDestroyed |-> engine.lightDestroyed,
                                   afterDestroy |-> engine.destroyed]),
                     !.pending = (engine.pending - 1) + 1]

\* onResize(): canvas, context and camera are updated, then
\* configureDepthTexture()
OnResize ==
  /\ Len(engine.textures) <= MaxResizes
  /\ engine' = ConfigureDepthTexture(engine)

\* setSubdivisions(subdivisions): both meshes are destroyed, then the two
\* factory calls run in turn.  outcome says which of them, if any, throws
\* (generateIcosahedron or a buffer allocation failing for the level asked).
SetSubdivisions(outcome) ==
  /\ Len(engine.setSubdivisions) < MaxSetSubdivisions
  /\ LET destroyed == DestroyMesh(DestroyMesh(engine.meshes, engine.sceneSimple),
                                  engine.sceneTextured)
         n == Len(engine.meshes)
     IN engine' =
          IF outcome = "createColoredThrows"
            THEN [engine EXCEPT
                    !.meshes = destroyed,
                    !.setSubdivisions = Append(engine.setSubdivisions, "threw")]
          ELSE IF outcome = "createTexturedThrows"
            THEN [engine EXCEPT
                    !.meshes = Append(destroyed, 0),
                    !.sceneSimple = n + 1,
                    !.setSubdivisions = Append(engine.setSubdivisions, "threw")]
          ELSE [engine EXCEPT
                  !.meshes = destroyed \o <<0, 0>>,
                  !.sceneSimple = n + 1,
                  !.sceneTextured = n + 2,
                  !.setSubdivisions = Append(engine.setSubdivisions, "returned")]

\* destroy(): the meshes and the depth texture; in the material version also
\* the materials, the camera and the light
Destroy ==
  /\ ~engine.destroyed
  /\ engine' = [engine EXCEPT
                  !.meshes = DestroyMesh(DestroyMesh(engine.meshes, engine.sceneSimple),
                                         engine.sceneTextured),
                  !.textures = [engine.textures EXCEPT ![engine.depthTexture] = TRUE],
                  !.cameraDestroyed = (engine.version = "material"),
                  !.lightDestroyed = (engine.version = "material"),
                  !.destroyed = TRUE]

EngineNext ==
  /\ \/ Start
     \/ \E b \in BOOLEAN : SetUseTexture(b)
     \/ Frame
     \/ OnResize
     \/ \E outcome \in {"returns", "createColoredThrows", "createTexturedThrows"} :
          SetSubdivisions(outcome)
     \/ Destroy
  /\ UNCHANGED <<pc, genVars, fixVars, uvVars, calls, geometry, sceneObject, loadTexture>>

SpecEngine == EngineInit /\ [][EngineNext]_vars

-----------------------------------------------------------------------------
(* loadTexture, from the decoded image on.  Sizes are in pixels.  The scale  *)
(* is a quotient of two integers, so Math.floor(width * scale) is taken      *)
(* exactly as an integer division; the rounding of the two double operations *)
(* can lower a result by one and cannot raise it.                            *)

MaxImageSize == 4

MaxTextureDimension == 3

\* Math.floor(side * Math.min(maxTextureSize / width, maxTextureSize / height))
ScaledSide(side, width, height, maxTextureSize) ==
  (side * maxTextureSize) \div Max(width, height)

LoadTextureInit ==
  /\ GenIdle
  /\ FixIdle
  /\ UVIdle
  /\ CallsIdle
  /\ pc = "loadTexture"
  /\ geometry = <<>>
  /\ sceneObject = <<>>
  /\ engine = <<>>
  /\ \E width \in 1..MaxImageSize, height \in 1..MaxImageSize,
        maxTextureSize \in 1..MaxTextureDimension :
       loadTexture = [pc |-> "decoded",
                      image |-> [width |-> width, height |-> height],
                      imageBitmap |-> [width |-> width, height |-> height],
                      maxTextureSize |-> maxTextureSize,
                      canvas |-> Undefined, texture |-> Undefined]

\* steps 2 and 3 up to the await: the limit is read and an image over it is
\* drawn into a canvas of the scaled size; createImageBitmap(canvas) rejects
\* with InvalidStateError for a canvas with a side of 0
ResizeIfNeeded ==
  /\ loadTexture.pc = "decoded"
  /\ LET b == loadTexture.imageBitmap
         m == loadTexture.maxTextureSize
         newWidth == ScaledSide(b.width, b.width, b.height, m)
         newHeight == ScaledSide(b.height, b.width, b.height, m)
     IN IF b.width > m \/ b.height > m
          THEN IF newWidth = 0 \/ newHeight = 0
                 THEN loadTexture' =
                        [loadTexture EXCEPT
                           !.canvas = <<[width |-> newWidth, height |-> newHeight]>>,
                           !.pc = "rejected"]
                 ELSE loadTexture' =
                        [loadTexture EXCEPT
                           !.canvas = <<[width |-> newWidth, height |-> newHeight]>>,
                           !.imageBitmap = [width |-> newWidth, height |-> newHeight],
                           !.pc = "sized"]
          ELSE loadTexture' = [loadTexture EXCEPT !.pc = "sized"]

\* step 4: device.createTexture({ size: [imageBitmap.width, imageBitmap.height, 1] })
CreateTexture ==
  /\ loadTexture.pc = "sized"
  /\ loadTexture' = [loadTexture EXCEPT
                       !.texture = <<loadTexture.imageBitmap>>,
                       !.pc = "texture"]

LoadTextureNext ==
  /\ ResizeIfNeeded \/ CreateTexture
  /\ UNCHANGED <<pc, genVars, fixVars, uvVars, calls, geometry, sceneObject, engine>>

SpecLoadTexture == LoadTextureInit /\ [][LoadTextureNext]_vars

-----------------------------------------------------------------------------
(* Vocabulary of the properties *)

InRepair == pc \in {"fix_loop", "fix_done", "fix_threw"}

\* numbers of the triangles whose loop iteration is complete
Processed == IF InRepair THEN 0..((fixI \div 3) - 1) ELSE {}

\* the three input indices of triangle k and the u values read through them
TriIn(k) == <<meshIndices[3 * k + 1], meshIndices[3 * k + 2], meshIndices[3 * k + 3]>>

TriU(k) == [j \in 1..3 |-> ReadU(meshVertices, TriIn(k)[j])]

\* some pairwise difference of the triangle's u values is above 0.5
Crossing(k) ==
  LET us == TriU(k)
  IN \E a, b \in 1..3 :
       /\ us[a] # <<>>
       /\ us[b] # <<>>
       /\ us[a][1] - us[b][1] > SeamThreshold

\* corner j of triangle k meets the clone condition
Eligible(k, j) ==
  LET us == TriU(k)
  IN /\ \A c \in 1..3 : us[c] # <<>>
     /\ us[j][1] < LowU
     /\ \E c \in 1..3 : us[c][1] > HighU
     /\ Crossing(k)

\* the first console.log of the loop named triangle k
FlaggedInLog(k) == \E e \in 1..Len(log) : log[e][1] = "seam" /\ log[e][2] = k

\* u of corner j of triangle k as the loop has left newIndices and newVertices
OutU(k, j) == VertexAt(newVertices, newIndices[3 * k + j])[7]

\* u of corner j of triangle k in the returned arrays
RetU(k, j) == ReadU(finalVertices, finalIndices[3 * k + j])

\* the midpoint indices the running pass gave the edges of its k-th face
EdgeMidpoints(k) ==
  LET f == faces[k]
  IN { <<{f[1], f[2]}, newFaces[4 * (k - 1) + 1][2]>>,
       <<{f[2], f[3]}, newFaces[4 * (k - 1) + 2][2]>>,
       <<{f[3], f[1]}, newFaces[4 * (k - 1) + 3][2]>> }

-----------------------------------------------------------------------------
(* Properties *)

\* C1: generateIcosahedron(L) returns 20 * 4^L triangles (60 * 4^L indices) and
\* 12 + 10 * (4^L - 1) vertices, for every level L >= 0 of the model.
FaceAndVertexCount ==
  (pc = "gen_done" /\ subdivisions >= 0) =>
    /\ Len(flatIndices) = 60 * 4^subdivisions
    /\ Len(flatVertices) = 12 + 10 * (4^subdivisions - 1)

\* C1 witness: level 1 has returned 42 vertices and 80 triangles.
LevelOneReturned ==
  pc = "gen_done" /\ subdivisions = 1 /\ Len(flatVertices) = 42 /\ Len(flatIndices) = 240

\* C2: getMidpoint(a, b) followed by getMidpoint(b, a) returns the same index and
\* adds no vertex; two faces of a pass that share an edge got the identical
\* midpoint index; every vertex beyond the base twelve is the midpoint of exactly
\* one cached undirected edge.
MidpointPerUndirectedEdge ==
  /\ (pc = "gen_face" /\ faceIdx < Len(faces)) =>
       \A e \in {<<1, 2>>, <<2, 3>>, <<3, 1>>} :
         LET a == faces[faceIdx + 1][e[1]]
             b == faces[faceIdx + 1][e[2]]
             r1 == getMidpoint(vertices, midpointCache, a, b)
             r2 == getMidpoint(r1.vertices, r1.cache, b, a)
         IN r2.index = r1.index /\ r2.vertices = r1.vertices
  /\ (pc = "gen_face" /\ faceIdx >= 1) =>
       \A k \in 1..faceIdx :
         \A e1 \in EdgeMidpoints(k), e2 \in EdgeMidpoints(faceIdx) :
           e1[1] = e2[1] => e1[2] = e2[2]
  /\ pc \in {"gen_pass", "gen_face", "gen_done"} =>
       /\ Cardinality(DOMAIN midpointCache) = Len(vertices) - 12
       /\ {midpointCache[key] : key \in DOMAIN midpointCache} = 12..(Len(vertices) - 1)
       /\ \A key \in DOMAIN midpointCache : <<key[2], key[1]>> \notin DOMAIN midpointCache

\* C2 witness: the face just subdivided shares an edge with an earlier face of the
\* pass and both hold the same midpoint for it.
SharedEdgeSubdivided ==
  /\ pc = "gen_face"
  /\ faceIdx >= 2
  /\ \E k \in 1..(faceIdx - 1) :
       \E e1 \in EdgeMidpoints(k), e2 \in EdgeMidpoints(faceIdx) : e1 = e2

\* the corners of triangle k all lie in the clone bands (u < 0.3 or u > 0.7) and
\* every corner below 0.3 is more than 0.5 away from every corner above 0.7
NearSeam(k) ==
  LET us == TriU(k)
  IN /\ \A j \in 1..3 : us[j][1] < LowU \/ us[j][1] > HighU
     /\ \A a, b \in 1..3 :
          (us[a][1] < LowU /\ us[b][1] > HighU) => us[b][1] - us[a][1] > SeamThreshold

CloneEligibleCorners ==
  InRepair =>
    \A k \in Processed : \A j \in 1..3 :
      LET c == newIndices[3 * k + j]
      IN IF Eligible(k, j)
           THEN /\ c >= VertexCount(meshVertices)
                /\ c < VertexCount(newVertices)
                /\ VertexAt(newVertices, c) =
                     [VertexAt(meshVertices, TriIn(k)[j]) EXCEPT ![7] = TriU(k)[j][1] + UShift]
           ELSE c = TriIn(k)[j]

\* C4 witness: the triangle with u = [0.05, 0.95, 0.5] got exactly its first
\* corner cloned, with u' = 1.05.
SpecExampleCloned ==
  /\ pc = "fix_done"
  /\ run = 1
  /\ meshIndices = <<0, 1, 2>>
  /\ TriU(0) = << <<5>>, <<95>>, <<50>> >>
  /\ newIndices = <<3, 1, 2>>
  /\ VertexCount(newVertices) = 4
  /\ VertexAt(newVertices, 3) = [VertexAt(meshVertices, 0) EXCEPT ![7] = 105]

\* C5: a triangle is declared seam-crossing exactly when one of its three
\* pairwise differences is strictly above 0.5.
FlaggedIffDifferenceAboveHalf ==
  /\ InRepair => \A k \in Processed : FlaggedInLog(k) <=> Crossing(k)
  /\ pc = "fix_threw" => Crossing(fixI \div 3)

\* C5 witness: a triangle whose largest difference is exactly 0.5 was passed
\* over, not flagged.
ExactlyHalfNotFlagged ==
  /\ pc = "fix_done"
  /\ \E k \in Processed :
       /\ ~FlaggedInLog(k)
       /\ \A j \in 1..3 : TriU(k)[j] # <<>>
       /\ \E a, b \in 1..3 : TriU(k)[a][1] - TriU(k)[b][1] = SeamThreshold

\* C6: a triangle that is not seam-crossing keeps its three index entries, in
\* the loop's array and in the returned array, and its iteration appends no
\* vertex.
UnflaggedTriangleUntouched ==
  /\ [](InRepair =>
         \A k \in Processed : ~Crossing(k) =>
           \A j \in 1..3 :
             /\ newIndices[3 * k + j] = meshIndices[3 * k + j]
             /\ pc = "fix_done" => finalIndices[3 * k + j] = meshIndices[3 * k + j])
  /\ [][(pc = "fix_loop" /\ fixI < Len(meshIndices) /\ ~Crossing(fixI \div 3)) =>
          (newVertices' = newVertices /\ nextVertexIndex' = nextVertexIndex)]_vars

\* C6 witness: one triangle of the mesh was repaired with a clone, another was
\* not flagged.
MixedMeshReturned ==
  /\ pc = "fix_done"
  /\ \E k \in Processed : \E j \in 1..3 : Eligible(k, j)
  /\ \E k \in Processed : ~Crossing(k)

\* the (triangle, corner) pairs that meet the clone condition
ClonePairs ==
  {p \in (0..((Len(meshIndices) \div 3) - 1)) \X (1..3) : Eligible(p[1], p[2])}

\* C7: the returned index array is as long as the input, the returned vertex
\* count is the input count plus the number of (triangle, corner) pairs that meet
\* the clone condition, and a vertex is cloned once for each such pair it is in.
VertexCountGrowsByClonePairs ==
  pc = "fix_done" =>
    LET pairs == ClonePairs
    IN /\ Len(finalIndices) = Len(meshIndices)
       /\ VertexCount(finalVertices) = VertexCount(meshVertices) + Cardinality(pairs)
       /\ \A x \in 1..Len(meshIndices) :
            Cardinality({e \in 1..Len(log) : log[e][1] = "dup" /\ log[e][2] = meshIndices[x]})
              = Cardinality({p \in pairs : meshIndices[3 * p[1] + p[2]] = meshIndices[x]})

\* C7 witness: one input vertex was cloned twice, for two triangles.
VertexClonedTwice ==
  /\ pc = "fix_done"
  /\ \E x \in 1..Len(meshIndices) :
       Cardinality({p \in ClonePairs :
                      TriIn(p[1])[p[2]] = meshIndices[x] /\ p[1] \in {0, 1}}) >= 2
  /\ \E p, q \in ClonePairs : p[1] # q[1] /\ TriIn(p[1])[p[2]] = TriIn(q[1])[q[2]]

\* C8 as stated: repairing the result of repairing a well-formed mesh with u in
\* [0, 1] returns the same vertex records and the same index array.
RepairIdempotent ==
  (pc = "fix_done" /\ run = 2 /\ firstWellFormed) =>
    finalVertices = meshVertices /\ finalIndices = meshIndices

\* C9: every index generateIcosahedron returns addresses a returned vertex, and
\* so does every index it holds on the way; when every input index of the seam
\* repair addresses an input vertex, every returned index addresses a returned
\* vertex.
IndicesAddressVertices ==
  /\ pc = "gen_done" => \A k \in 1..Len(flatIndices) : flatIndices[k] < Len(flatVertices)
  /\ pc \in {"gen_pass", "gen_face"} =>
       /\ \A k \in 1..Len(faces) : \A j \in 1..3 : faces[k][j] < Len(vertices)
       /\ pc = "gen_face" =>
            \A k \in 1..Len(newFaces) : \A j \in 1..3 : newFaces[k][j] < Len(vertices)
  /\ (pc = "fix_done" /\ \A k \in 1..Len(meshIndices) :
                           meshIndices[k] < VertexCount(meshVertices)) =>
       \A k \in 1..Len(finalIndices) : finalIndices[k] < VertexCount(finalVertices)

\* C9 witness: a repair of a mesh with valid indices returned more vertices than
\* it was given.
ValidMeshGrew ==
  /\ pc = "fix_done"
  /\ \A k \in 1..Len(meshIndices) : meshIndices[k] < VertexCount(meshVertices)
  /\ VertexCount(finalVertices) > VertexCount(meshVertices)
  /\ \E k \in 1..Len(finalIndices) : finalIndices[k] >= VertexCount(meshVertices)

\* C10 as stated: no returned index array holds an index truncated modulo 2^16:
\* the returned entries are the indices the function computed.
NoIndexTruncated ==
  /\ pc = "fix_done" => finalIndices = newIndices
  /\ pc = "gen_done" =>
       \A k \in 1..Len(faces) : \A j \in 1..3 : flatIndices[3 * (k - 1) + j] = faces[k][j]

\* C11 as stated: a call of generateIcosahedron with a negative level fails; it
\* never returns a mesh.
InvalidLevelRejected == subdivisions < 0 => pc # "gen_done"

\* C12 as stated: a call of fixTextureSeamProperly whose index array holds an
\* index at or past the vertex count never returns a mesh.
OutOfRangeIndexRejected ==
  pc = "fix_done" =>
    \A k \in 1..Len(meshIndices) : meshIndices[k] < VertexCount(meshVertices)

\* the generator is running or has returned
InGenerator == pc \in {"gen_pass", "gen_face", "gen_done"}

\* the point halfway between vertices a and b, pushed back onto the sphere
MidpointOf(a, b) ==
  Normalize([k \in 1..3 |-> FDiv(vertices[a + 1][k] + vertices[b + 1][k], 2)])

\* the vertex with index m is the normalised midpoint of the edge a-b
IsMidpointIndex(m, a, b) ==
  m >= 12 /\ m < Len(vertices) /\ vertices[m + 1] = MidpointOf(a, b)

\* C13: in a pass, the faces pushed for the k-th face (a, b, c) are (a,ab,ca),
\* (b,bc,ab), (c,ca,bc), (ab,bc,ca) in this order, with ab, bc, ca the indices of
\* the midpoints of a-b, b-c, c-a; the pass ends with exactly these faces; the
\* base vertices and every midpoint created so far stay at their indices.
FourChildrenInFaceOrder ==
  /\ pc = "gen_face" =>
       /\ Len(newFaces) = 4 * faceIdx
       /\ \A k \in 1..faceIdx :
            LET a == faces[k][1]
                b == faces[k][2]
                c == faces[k][3]
                ab == newFaces[4 * k - 3][2]
                bc == newFaces[4 * k - 2][2]
                ca == newFaces[4 * k - 1][2]
            IN /\ IsMidpointIndex(ab, a, b)
               /\ IsMidpointIndex(bc, b, c)
               /\ IsMidpointIndex(ca, c, a)
               /\ newFaces[4 * k - 3] = <<a, ab, ca>>
               /\ newFaces[4 * k - 2] = <<b, bc, ab>>
               /\ newFaces[4 * k - 1] = <<c, ca, bc>>
               /\ newFaces[4 * k] = <<ab, bc, ca>>
  /\ (pc \in {"gen_pass", "gen_done"} /\ genI >= 1) =>
       faces = newFaces /\ Len(faces) = 20 * 4^genI
  /\ InGenerator =>
       /\ \A k \in 1..12 : vertices[k] = baseVertices[k]
       /\ \A key \in DOMAIN midpointCache :
            IsMidpointIndex(midpointCache[key], key[1], key[2])

\* C13 witness: the second pass has replaced a face of the first pass by its four
\* children.
SecondPassReplacedFace ==
  /\ pc = "gen_face"
  /\ genI = 1
  /\ faceIdx >= 1
  /\ newFaces[4] = <<newFaces[1][2], newFaces[2][2], newFaces[3][2]>>
  /\ newFaces[1][1] = faces[1][1]

\* the directed edges of the returned triangle list
ReturnedEdges ==
  { <<flatIndices[3 * (k - 1) + j], flatIndices[3 * (k - 1) + (j % 3) + 1]>> :
      k \in 1..(Len(flatIndices) \div 3), j \in 1..3 }

Requests(fs) ==
  [i \in 1..(3 * Len(fs)) |->
     LET f == fs[((i - 1) \div 3) + 1]
         j == ((i - 1) % 3) + 1
     IN Key(f[j], f[(j % 3) + 1])]

\* C15: the returned vertex array holds one 6-float record per accumulated point,
\* the 12 base vertices first, then the midpoints in the order they were first
\* requested, and the normal of every record equals its position.
OneRecordPerPointInCreationOrder ==
  /\ pc = "gen_done" =>
       /\ Len(flatVertices) = Len(vertices)
       /\ \A k \in 1..Len(vertices) :
            /\ Len(flatVertices[k]) = 6
            /\ \A c \in 1..3 : flatVertices[k][c] = vertices[k][c]
            /\ \A c \in 1..3 : flatVertices[k][c + 3] = flatVertices[k][c]
       /\ \A k \in 1..12 : \A c \in 1..3 : flatVertices[k][c] = baseVertices[k][c]
  /\ (pc = "gen_face" /\ faceIdx = Len(faces)) =>
       LET r == Requests(faces)
           first == {i \in 1..Len(r) : \A h \in 1..(i - 1) : r[h] # r[i]}
           before == Len(vertices) - Cardinality(first)
       IN \A i \in first :
            /\ midpointCache[r[i]] = before + Cardinality({h \in first : h < i})
            /\ IsMidpointIndex(midpointCache[r[i]], r[i][1], r[i][2])

\* C15 witness: a level-1 mesh has returned; its record 12 is the midpoint of the
\* first edge requested, 0-11, its record 13 that of the second, 11-5.
FirstMidpointsEmitted ==
  /\ pc = "gen_done"
  /\ subdivisions = 1
  /\ \A c \in 1..3 : flatVertices[13][c] = MidpointOf(0, 11)[c]
  /\ \A c \in 1..3 : flatVertices[14][c] = MidpointOf(11, 5)[c]
  /\ \A c \in 1..3 : flatVertices[13][c + 3] = flatVertices[13][c]

\* |x| * |x| of the position of returned record k, in PosScale * PosScale units
NormSquared(k) ==
  flatVertices[k][1] * flatVertices[k][1] + flatVertices[k][2] * flatVertices[k][2]
    + flatVertices[k][3] * flatVertices[k][3]

UVKeepsPositionAndNormal ==
  /\ [](pc = "uv_done" =>
         /\ Len(uvResult) = Len(uvVertices)
         /\ \A k \in 1..Len(uvVertices) :
              /\ Len(uvResult[k]) = 8
              /\ \A c \in 1..6 : uvResult[k][c] = uvVertices[k][c])
  /\ [][pc = "uv_loop" => uvVertices' = uvVertices]_vars

\* C16 witness: a record whose normal differs from its position was projected.
NormalKeptApartFromPosition ==
  /\ pc = "uv_done"
  /\ \E k \in 1..Len(uvVertices) :
       /\ <<uvVertices[k][4], uvVertices[k][5], uvVertices[k][6]>>
            # <<uvVertices[k][1], uvVertices[k][2], uvVertices[k][3]>>
       /\ uvResult[k][6] = uvVertices[k][6]

\* the position of input record k is not the origin
OffOrigin(k) == uvVertices[k][1] # 0 \/ uvVertices[k][2] # 0 \/ uvVertices[k][3] # 0

\* u and v of returned record k are numbers between lo and hi
UVWithin(k, lo, hi) ==
  /\ uvResult[k][7] # <<>>
  /\ uvResult[k][8] # <<>>
  /\ uvResult[k][7][1] >= lo /\ uvResult[k][7][1] <= hi
  /\ uvResult[k][8][1] >= lo /\ uvResult[k][8][1] <= hi

CallsIndependent ==
  pc = "calls" =>
    /\ \A id \in 1..2 :
         calls[id].pc = "gen_done" =>
           LET alone == RunAlone(CallBegin(calls[id].subdivisions))
           IN /\ calls[id].flatVertices = alone.flatVertices
              /\ calls[id].flatIndices = alone.flatIndices
    /\ (calls[1].pc = "gen_done" /\ calls[2].pc = "gen_done"
          /\ calls[1].subdivisions = calls[2].subdivisions) =>
         /\ calls[1].flatVertices = calls[2].flatVertices
         /\ calls[1].flatIndices = calls[2].flatIndices

\* C19 witness: a subdividing call has returned its mesh while the other call is
\* in the middle of a pass, with midpoints of its own in its cache.
CallReturnedBesideRunningCall ==
  /\ pc = "calls"
  /\ calls[1].pc = "gen_done"
  /\ calls[1].subdivisions >= 1
  /\ Len(calls[1].flatVertices) > 12
  /\ calls[2].pc = "gen_face"
  /\ calls[2].faceIdx >= 1 /\ calls[2].faceIdx < Len(calls[2].faces)
  /\ DOMAIN calls[2].midpointCache # {}

\* the records of the run-length array a are the first records of the array b
RecordsPrefix(a, b) ==
  /\ Len(a) <= Len(b)
  /\ \A r \in 1..(Len(a) - 1) : b[r] = a[r]
  /\ a # <<>> => (b[Len(a)].rec = a[Len(a)].rec /\ b[Len(a)].count >= a[Len(a)].count)

\* C20: no step of fixTextureSeamProperly writes to its two arguments, and the
\* first originalCount vertex records it builds and returns are the input's.
RepairLeavesArgumentsAlone ==
  /\ [](InRepair => RecordsPrefix(meshVertices, newVertices))
  /\ [](pc = "fix_done" =>
         /\ RecordsPrefix(meshVertices, finalVertices)
         /\ \A k \in 0..2 :
              k < VertexCount(meshVertices) =>
                VertexAt(finalVertices, k) = VertexAt(meshVertices, k))
  /\ [][pc = "fix_loop" => (meshVertices' = meshVertices /\ meshIndices' = meshIndices)]_vars

\* C20 witness: a repair has returned with clones after the input's records and
\* with rewritten index entries.
ClonesAppendedAfterInput ==
  /\ pc = "fix_done"
  /\ run = 1
  /\ VertexCount(finalVertices) >= VertexCount(meshVertices) + 2
  /\ RecordsPrefix(meshVertices, finalVertices)
  /\ finalIndices # meshIndices

\* the number of vertices when pass i (counted from 0) starts
VerticesBeforePass(i) == 12 + 10 * (4^i - 1)

\* C21 as stated: when a pass starts, the cache holds no entry of an earlier pass.
CacheEmptyAtPassStart ==
  (pc = "gen_pass" /\ genI < subdivisions) => DOMAIN midpointCache = {}

\* C21 amended: the cache is created empty once per call and lives for the whole
\* call: when pass k + 1 starts it still holds every entry created in the passes
\* before, one per midpoint, among them the entry of each edge of the pass that
\* has just ended.
CacheKeptAcrossPasses ==
  pc \in {"gen_pass", "gen_done"} =>
    /\ Cardinality(DOMAIN midpointCache) = VerticesBeforePass(genI) - 12
    /\ genI >= 1 =>
         \A k \in 1..(Len(faces) \div 4) :
           LET a == faces[4 * k - 3][1]
               b == faces[4 * k - 2][1]
           IN /\ Key(a, b) \in DOMAIN midpointCache
              /\ midpointCache[Key(a, b)] = faces[4 * k - 3][2]

\* C21 witness: the second pass starts with the thirty entries of the first.
SecondPassStartsWithEntries ==
  /\ pc = "gen_pass"
  /\ genI = 1
  /\ subdivisions >= 2
  /\ Cardinality(DOMAIN midpointCache) = 30
  /\ <<0, 11>> \in DOMAIN midpointCache

\* C28: in a pass after the first, every edge requested has an end point created
\* by the pass before, no key of an earlier pass is requested, and the entry
\* found for an edge of a face already subdivided is the midpoint of that edge,
\* created in the running pass.
NoStaleKeyRequested ==
  (pc = "gen_face" /\ genI >= 1) =>
    \A k \in 1..Len(faces) : \A j \in 1..3 :
      LET a == faces[k][j]
          b == faces[k][(j % 3) + 1]
          key == Key(a, b)
      IN /\ key[2] >= VerticesBeforePass(genI - 1)
         /\ key \in DOMAIN midpointCache =>
              /\ midpointCache[key] >= VerticesBeforePass(genI)
              /\ IsMidpointIndex(midpointCache[key], a, b)
         /\ k <= faceIdx => key \in DOMAIN midpointCache

\* C28 witness: in the second pass a request hit the cache, for an edge that two
\* faces of the pass share, while the entries of the first pass are still there.
SecondPassCacheHit ==
  /\ pc = "gen_face"
  /\ genI = 1
  /\ faceIdx >= 2
  /\ <<0, 11>> \in DOMAIN midpointCache
  /\ \E k \in 1..(faceIdx - 1) :
       \E e1 \in EdgeMidpoints(k), e2 \in EdgeMidpoints(faceIdx) : e1 = e2


-----------------------------------------------------------------------------
(* The geometry system *)

AccessorNames == {"getVertexBufferDescriptor", "createBuffers", "getIndexFormat"}

\* C22: in both versions, a constructed IcosahedronGeometry ran generateVertices
\* with its arguments stored: it has 20 * 4^subdivisions triangles and the
\* stride-32 layout exactly when useTextureCoords is true
GeometryBuiltAsRequested ==
  geometry.pc = "constructed" =>
    /\ geometry.storedAtGenerate
    /\ geometry.indexCount = 3 * 20 * 4^(geometry.args.subdivisions)
    /\ (geometry.stride = TexturedStride) = geometry.args.useTextureCoords
    /\ geometry.stride \in {TexturedStride, ColoredStride}

\* C23: in the deferred version an accessor returns a value exactly when a
\* generateVertices of this instance has completed and throws 'Geometry not
\* initialized' otherwise; generateVertices completes at most once; an initialize
\* that rethrows leaves the instance uninitialised
AccessorsGuardedByInitialize ==
  geometry.version = 2 =>
    /\ geometry.last.op \in AccessorNames =>
         geometry.last.result = IF geometry.generated >= 1 THEN "value"
                                ELSE "Geometry not initialized"
    /\ geometry.generated <= 1
    /\ geometry.last = [op |-> "initialize", result |-> "rethrown"] =>
         /\ ~geometry._initialized
         /\ geometry.generated = 0

\* the constructor's initialize threw after assigning the layout, a later
\* initialize completed, and an accessor then returned a value
AccessorAfterRetriedInitialize ==
  /\ geometry.version = 2
  /\ geometry.pc = "thrown"
  /\ geometry.generated = 1
  /\ geometry.last.op \in AccessorNames
  /\ geometry.last.result = "value"


-----------------------------------------------------------------------------
(* SceneObject *)

\* C24: every setIndexBuffer that draw records carries the format of the typed
\* array initializeBuffers uploaded: 'uint32' for a Uint32Array, 'uint16' for a
\* Uint16Array
DrawnFormatMatchesUpload ==
  \A k \in 1..Len(sceneObject.pass) :
    sceneObject.pass[k].setIndexBuffer = IndexFormatOfUpload(sceneObject.indexBuffer[1])


-----------------------------------------------------------------------------
(* Engine *)

\* the meshes a scene field has referenced and references no more
FormerMeshes ==
  {m \in 1..Len(engine.meshes) : m \notin {engine.sceneSimple, engine.sceneTextured}}

\* C25: over setSubdivisions calls and frames after init, once a setSubdivisions
\* has returned or thrown both scene fields reference a mesh never destroyed,
\* every mesh referenced before has been destroyed exactly once, and no frame
\* has drawn a destroyed mesh
ScenesLiveAfterSetSubdivisions ==
  ~engine.destroyed =>
    /\ engine.setSubdivisions # <<>> =>
         /\ engine.meshes[engine.sceneSimple] = 0
         /\ engine.meshes[engine.sceneTextured] = 0
         /\ \A m \in FormerMeshes : engine.meshes[m] = 1
    /\ \A k \in 1..Len(engine.frames) : ~engine.frames[k].meshDestroyed

\* C26: no frame that runs after destroy() uses a destroyed mesh, depth texture,
\* camera or light
NoFrameUsesDestroyedEngine ==
  \A k \in 1..Len(engine.frames) :
    engine.frames[k].afterDestroy =>
      /\ ~engine.frames[k].meshDestroyed
      /\ ~engine.frames[k].depthDestroyed
      /\ ~engine.frames[k].cameraDestroyed
      /\ ~engine.frames[k].lightDestroyed

\* C27: at most one depth texture made by the Engine has not been destroyed
OneLiveDepthTexture ==
  Cardinality({t \in 1..Len(engine.textures) : ~engine.textures[t]}) <= 1


-----------------------------------------------------------------------------
(* loadTexture *)

\* C30: for every image size and limit M the size an oversized image is
\* resized to is at least 1x1, and the texture created has width and height
\* between 1 and M
TextureWithinLimits ==
  /\ loadTexture.canvas # Undefined =>
       /\ loadTexture.canvas[1].width >= 1
       /\ loadTexture.canvas[1].height >= 1
  /\ loadTexture.texture # Undefined =>
       /\ loadTexture.texture[1].width \in 1..loadTexture.maxTextureSize
       /\ loadTexture.texture[1].height \in 1..loadTexture.maxTextureSize


-----------------------------------------------------------------------------
(* The order of the clones *)

\* the number of clones created before the clone of corner p[2] of triangle p[1]
CloneRank(p) ==
  Cardinality({q \in ClonePairs : q[1] < p[1] \/ (q[1] = p[1] /\ q[2] < p[2])})

\* C29: in the returned mesh of a well-formed input the k-th clone, in triangle
\* and corner order, is the vertex at index originalCount + k; that index is the
\* entry of the corner that caused the clone and of no other slot of the
\* returned index array, and every vertex past the input ones is such a clone
ClonesInCreationOrder ==
  (pc = "fix_done" /\ run = 1 /\ firstWellFormed) =>
    LET originalCount == VertexCount(meshVertices)
    IN /\ \A p \in ClonePairs :
            /\ finalIndices[3 * p[1] + p[2]] = originalCount + CloneRank(p)
            /\ VertexAt(finalVertices, originalCount + CloneRank(p))
                 = CloneVertex(meshVertices, TriIn(p[1])[p[2]], TriU(p[1])[p[2]][1])
       /\ \A c \in originalCount..(VertexCount(finalVertices) - 1) :
            Cardinality({x \in 1..Len(finalIndices) : finalIndices[x] = c}) = 1

====
